---- MODULE Spec2Model ----
(***************************************************************************)
(* Verification model of two NIR lowering passes:                          *)
(*   nir_lower_vec_to_movs  (src/glsl/nir/nir_lower_vec_to_movs.c)         *)
(*   nir_lower_doubles      (src/compiler/nir/nir_lower_double_ops.c)      *)
(***************************************************************************)
EXTENDS Integers, Sequences, FiniteSets, TLC

VARIABLES
  block,       \* vec pass: the instruction list of the block being walked
  registers,   \* vec pass: registers present in the function
  cur,         \* vec pass: id of the instruction the walk visits next, 0 at the tail
  pc,          \* vec pass: "walk", "done", "aborted" (assert) or "crashed"
  next_id,     \* vec pass: id handed to the next created instruction
  block0,      \* vec pass: the block as it was before the pass (history)
  visited,     \* vec pass: ids of the instructions visited so far (history)
  lowered,     \* vec pass: the vec instructions rewritten so far (history)
  impl,        \* doubles pass: the instructions of the function, in order
  options,     \* doubles pass: the nir_lower_doubles_options flags that are set
  dcur,        \* doubles pass: id of the instruction the walk visits next
  dpc,         \* doubles pass: "walk", "done" or "aborted" (assert)
  dnext_id,    \* doubles pass: id handed to the next created instruction
  ifs,         \* doubles pass: number of if nodes in the function
  impl0,       \* doubles pass: the function before the pass (history)
  arg,         \* decomposition functions: the inputs of the evaluated function
  ret          \* decomposition functions: its result, <<>> before it has run

vecvars == <<block, registers, cur, pc, next_id, block0, visited, lowered>>

dblvars == <<impl, options, dcur, dpc, dnext_id, ifs, impl0>>

funvars == <<arg, ret>>

vars == <<vecvars, dblvars, funvars>>

(***************************************************************************)
(* Bounds                                                                  *)
(***************************************************************************)
MaxDefs == 2     \* number of instructions defining the intermediate register

(***************************************************************************)
(* Generic helpers                                                         *)
(***************************************************************************)
Channels == 0..3

Min(S) == CHOOSE x \in S : \A y \in S : x <= y

\* the first position from k on of the instruction id, 0 when there is none
IndexOf(seq, id, k) ==
  IF \E j \in k..Len(seq) : seq[j].id = id
  THEN Min({j \in k..Len(seq) : seq[j].id = id})
  ELSE 0

Present(seq, id) == IndexOf(seq, id, 1) # 0

InstrById(seq, id) == seq[IndexOf(seq, id, 1)]

\* the instruction following id in the list, 0 when id is the last one
NextOf(seq, id) ==
  LET k == IndexOf(seq, id, 1)
  IN IF k = Len(seq) THEN 0 ELSE seq[k + 1].id

\* nir_instr_remove
nir_instr_remove(seq, id) ==
  LET k == IndexOf(seq, id, 1)
  IN SubSeq(seq, 1, k - 1) \o SubSeq(seq, k + 1, Len(seq))

\* nir_instr_insert_before
nir_instr_insert_before(seq, id, new) ==
  LET k == IndexOf(seq, id, 1)
  IN SubSeq(seq, 1, k - 1) \o <<new>> \o SubSeq(seq, k, Len(seq))

(***************************************************************************)
(* IR of the vec pass                                                      *)
(***************************************************************************)
NoReg == 0 - 1

SsaSrc(v, swz) ==
  [is_ssa |-> TRUE, ssa |-> v, reg |-> NoReg, base_offset |-> 0,
   indirect |-> FALSE, swizzle |-> swz]

RegSrc(r, off, ind, swz) ==
  [is_ssa |-> FALSE, ssa |-> 0, reg |-> r, base_offset |-> off,
   indirect |-> ind, swizzle |-> swz]

RegDest(r, wm) ==
  [is_ssa |-> FALSE, reg |-> r, base_offset |-> 0, indirect |-> FALSE,
   write_mask |-> wm]

SsaDest(wm) ==
  [is_ssa |-> TRUE, reg |-> NoReg, base_offset |-> 0, indirect |-> FALSE,
   write_mask |-> wm]

VecOps == {"vec2", "vec3", "vec4"}

\* nir_op_infos[op].num_inputs
NumInputs(op) ==
  CASE op = "vec2" -> 2
    [] op = "vec3" -> 3
    [] op = "vec4" -> 4
    [] op = "fdot2" -> 2
    [] OTHER -> 1

IsDot(op) == op \in {"fdot2", "fdot3", "fdot4"}

SrcIdx(ins) == 0..(NumInputs(ins.op) - 1)

\* list_length(&reg->uses): every register source operand in the function
UsesOfInstr(ins, reg) ==
  Cardinality({k \in DOMAIN ins.src :
                 ~ins.src[k].is_ssa /\ ins.src[k].reg = reg})

RECURSIVE UsesCount(_, _, _)
UsesCount(seq, reg, k) ==
  IF k > Len(seq) THEN 0
  ELSE UsesOfInstr(seq[k], reg) + UsesCount(seq, reg, k + 1)

\* the def list of a register, as instruction ids
RECURSIVE DefsOf(_, _, _)
DefsOf(seq, reg, k) ==
  IF k > Len(seq) THEN <<>>
  ELSE IF ~seq[k].dest.is_ssa /\ seq[k].dest.reg = reg
       THEN <<seq[k].id>> \o DefsOf(seq, reg, k + 1)
       ELSE DefsOf(seq, reg, k + 1)

src_matches_dest_reg(dest, src) ==
  IF dest.is_ssa \/ src.is_ssa THEN FALSE
  ELSE /\ dest.reg = src.reg
       /\ dest.base_offset = src.base_offset
       /\ ~dest.indirect
       /\ ~src.indirect

nir_srcs_equal(a, b) ==
  IF a.is_ssa THEN b.is_ssa /\ a.ssa = b.ssa
  ELSE /\ ~b.is_ssa
       /\ a.indirect = b.indirect
       /\ a.reg = b.reg
       /\ a.base_offset = b.base_offset

(***************************************************************************)
(* insert_mov                                                              *)
(***************************************************************************)
RECURSIVE insert_mov_loop(_, _, _, _, _)
\* the for loop of insert_mov over the channels above start_channel;
\* m carries the write mask and the swizzle of the MOV built so far
insert_mov_loop(vec, start_src_idx, i, src_idx, m) ==
  IF i >= 4 THEN m
  ELSE IF i \notin vec.dest.write_mask
       THEN insert_mov_loop(vec, start_src_idx, i + 1, src_idx, m)
  ELSE IF src_idx \notin DOMAIN vec.src
       THEN [m EXCEPT !.oob = TRUE]
  ELSE IF nir_srcs_equal(vec.src[src_idx], vec.src[start_src_idx])
       THEN insert_mov_loop(vec, start_src_idx, i + 1, src_idx + 1,
              [m EXCEPT !.wm = @ \cup {i},
                        !.swz[i] = vec.src[src_idx].swizzle[0]])
  ELSE insert_mov_loop(vec, start_src_idx, i + 1, src_idx + 1, m)

\* write mask and swizzle of the MOV insert_mov builds
insert_mov_mask(vec, start_channel, start_src_idx) ==
  insert_mov_loop(vec, start_src_idx, start_channel + 1, start_src_idx + 1,
    [wm |-> {start_channel},
     swz |-> [vec.src[start_src_idx].swizzle
                EXCEPT ![start_channel] = vec.src[start_src_idx].swizzle[0]],
     oob |-> FALSE])

\* the MOV instruction insert_mov builds (its write mask is the return value)
insert_mov(vec, start_channel, start_src_idx) ==
  LET m == insert_mov_mask(vec, start_channel, start_src_idx)
  IN [id |-> 0, type |-> "alu", op |-> "imov",
      dest |-> [vec.dest EXCEPT !.write_mask = m.wm],
      src |-> [k \in {0} |-> [vec.src[start_src_idx] EXCEPT !.swizzle = m.swz]],
      from |-> vec.id, clone_of |-> 0]

(***************************************************************************)
(* clone_alu_instr_and_override_dest                                       *)
(***************************************************************************)
clone_alu_instr_and_override_dest(alu_instr, new_dest, index) ==
  LET channel == Min(alu_instr.dest.write_mask)
  IN [id |-> 0, type |-> "alu", op |-> alu_instr.op,
      dest |-> [new_dest EXCEPT !.write_mask = {index}],
      src |-> [k \in SrcIdx(alu_instr) |->
                 IF IsDot(alu_instr.op) THEN alu_instr.src[k]
                 ELSE [alu_instr.src[k] EXCEPT
                         !.swizzle[index] = alu_instr.src[k].swizzle[channel]]],
      from |-> 0, clone_of |-> alu_instr.id]

(***************************************************************************)
(* lower_vec_to_movs_block: the rewrite of one vec instruction.            *)
(* st = [instrs, regs, finished, nid, status] is threaded through the      *)
(* loops; status is "ok", "aborted" (failed assert) or "crashed".          *)
(***************************************************************************)
\* body of nir_foreach_def_safe for one defining instruction
FoldDef(st, vec, i, reg, defid) ==
  IF st.status # "ok" THEN st
  ELSE
  LET parent == InstrById(st.instrs, defid)
  IN IF parent.type # "alu" THEN st
     ELSE IF UsesCount(st.instrs, parent.dest.reg, 1) # 1 THEN st
     ELSE IF parent.op = "imov" THEN st
     ELSE IF parent.id = vec.id
          \* the vec defines its own source register: it is cloned, removed
          \* and freed, and the clone is then inserted before the freed,
          \* unlinked node
          THEN [st EXCEPT !.instrs = nir_instr_remove(st.instrs, vec.id),
                          !.finished = @ \cup {i},
                          !.status = "crashed"]
     ELSE LET new_alu_instr ==
                [clone_alu_instr_and_override_dest(parent, vec.dest, i)
                   EXCEPT !.id = st.nid, !.from = vec.id]
              removed == nir_instr_remove(st.instrs, defid)
          IN [st EXCEPT
                !.instrs = nir_instr_insert_before(removed, vec.id, new_alu_instr),
                !.regs = IF DefsOf(removed, parent.dest.reg, 1) = <<>>
                         THEN @ \ {parent.dest.reg} ELSE @,
                !.finished = @ \cup new_alu_instr.dest.write_mask,
                !.nid = @ + 1]

RECURSIVE FoldDefs(_, _, _, _, _, _)
\* nir_foreach_def_safe(reg, src)
FoldDefs(st, vec, i, reg, defs, k) ==
  IF k > Len(defs) THEN st
  ELSE FoldDefs(FoldDef(st, vec, i, reg, defs[k]), vec, i, reg, defs, k + 1)

\* Outcomes of reading vec->src[i] past the end of the source array:
\* the is_ssa byte is non-zero, the register pointer is one of the
\* function's registers, or it is not a valid pointer.
OobSsa == 0 - 1
OobCrash == 0 - 2

RECURSIVE FoldLoop(_, _, _, _)
\* for (i = 0; i < 4; i++) of the folding step
FoldLoop(st, vec, i, oob) ==
  IF i >= 4 \/ st.status # "ok" THEN st
  ELSE IF i \notin vec.dest.write_mask THEN FoldLoop(st, vec, i + 1, oob)
  ELSE IF i \in DOMAIN vec.src
       THEN IF vec.src[i].is_ssa THEN FoldLoop(st, vec, i + 1, oob)
            ELSE LET reg == vec.src[i].reg
                 IN FoldLoop(FoldDefs(st, vec, i, reg,
                                      DefsOf(st.instrs, reg, 1), 1),
                             vec, i + 1, oob)
  ELSE IF oob[i] = OobSsa THEN FoldLoop(st, vec, i + 1, oob)
  ELSE IF oob[i] = OobCrash THEN [st EXCEPT !.status = "crashed"]
  ELSE FoldLoop(FoldDefs(st, vec, i, oob[i],
                         DefsOf(st.instrs, oob[i], 1), 1),
                vec, i + 1, oob)

\* the call of insert_mov with its assert and its insertion before the vec
EmitMov(st, vec, i, src_idx) ==
  IF ~(src_idx < NumInputs(vec.op)) THEN [st EXCEPT !.status = "aborted"]
  ELSE LET mov == [insert_mov(vec, i, src_idx) EXCEPT !.id = st.nid]
       IN IF insert_mov_mask(vec, i, src_idx).oob
          THEN [st EXCEPT !.status = "crashed"]
          ELSE [st EXCEPT
                  !.instrs = nir_instr_insert_before(st.instrs, vec.id, mov),
                  !.finished = @ \cup mov.dest.write_mask,
                  !.nid = @ + 1]

RECURSIVE AliasLoop(_, _, _, _)
\* "First, emit a MOV for all the src channels that are in the destination reg"
AliasLoop(st, vec, i, src_idx) ==
  IF i >= 4 \/ st.status # "ok" THEN st
  ELSE IF i \notin vec.dest.write_mask THEN AliasLoop(st, vec, i + 1, src_idx)
  ELSE IF i \notin st.finished THEN AliasLoop(st, vec, i + 1, src_idx)
  ELSE IF src_matches_dest_reg(vec.dest, vec.src[src_idx])
       THEN EmitMov(st, vec, i, src_idx)
  ELSE AliasLoop(st, vec, i + 1, src_idx + 1)

RECURSIVE MovLoop(_, _, _, _)
\* "Now, emit MOVs for all the other src channels."
MovLoop(st, vec, i, src_idx) ==
  IF i >= 4 \/ st.status # "ok" THEN st
  ELSE IF i \notin vec.dest.write_mask THEN MovLoop(st, vec, i + 1, src_idx)
  ELSE IF i \notin st.finished
       THEN MovLoop(EmitMov(st, vec, i, src_idx), vec, i + 1, src_idx + 1)
  ELSE MovLoop(st, vec, i + 1, src_idx + 1)

\* the whole rewrite of one vec with a register destination
LowerVec(instrs, regs, nid, vec, oob) ==
  LET st0 == [instrs |-> instrs, regs |-> regs, finished |-> {},
              nid |-> nid, status |-> "ok"]
      st1 == FoldLoop(st0, vec, 0, oob)
      st2 == AliasLoop(st1, vec, 0, 0)
      st3 == MovLoop(st2, vec, 0, 0)
  IN IF st3.status = "ok"
     THEN [st3 EXCEPT !.instrs = nir_instr_remove(st3.instrs, vec.id)]
     ELSE st3

(***************************************************************************)
(* Symbolic execution of a block.  A value is a term: the initial content  *)
(* of a register component, a component of an SSA definition, a component  *)
(* an intrinsic loads, or an ALU operation applied to terms.               *)
(***************************************************************************)
Term(op, n, c, args) == [op |-> op, n |-> n, c |-> c, args |-> args]

Regs == {0, 1}        \* register 0 is the vec destination, 1 an intermediate

Locations == Regs \X {0, 1} \X Channels     \* register, base offset, channel

InitialState == [l \in Locations |-> Term("reg", l[1] * 2 + l[2], l[3], <<>>)]

ReadSrc(sigma, src, c) ==
  IF src.is_ssa THEN Term("ssa", src.ssa, c, <<>>)
  ELSE IF src.indirect THEN Term("indirect", src.reg, c, <<>>)
  ELSE sigma[<<src.reg, src.base_offset, c>>]

\* the value an ALU or intrinsic instruction stores in channel c
ChannelValue(sigma, ins, c) ==
  IF ins.type # "alu" THEN Term("load", ins.id, c, <<>>)
  ELSE IF ins.op \in VecOps
       THEN LET k == Cardinality({d \in ins.dest.write_mask : d < c})
            IN ReadSrc(sigma, ins.src[k], ins.src[k].swizzle[0])
  ELSE IF ins.op = "imov"
       THEN ReadSrc(sigma, ins.src[0], ins.src[0].swizzle[c])
  ELSE IF IsDot(ins.op)
       THEN Term(ins.op, 0, 0,
                 <<ReadSrc(sigma, ins.src[0], ins.src[0].swizzle[0]),
                   ReadSrc(sigma, ins.src[0], ins.src[0].swizzle[1]),
                   ReadSrc(sigma, ins.src[1], ins.src[1].swizzle[0]),
                   ReadSrc(sigma, ins.src[1], ins.src[1].swizzle[1])>>)
  ELSE Term(ins.op, 0, 0, <<ReadSrc(sigma, ins.src[0], ins.src[0].swizzle[c])>>)

Exec1(sigma, ins) ==
  IF ins.dest.is_ssa \/ ins.dest.indirect THEN sigma
  ELSE [l \in Locations |->
          IF /\ l[1] = ins.dest.reg
             /\ l[2] = ins.dest.base_offset
             /\ l[3] \in ins.dest.write_mask
          THEN ChannelValue(sigma, ins, l[3])
          ELSE sigma[l]]

RECURSIVE Exec(_, _, _, _)
\* run seq[k..last] from sigma
Exec(sigma, seq, k, last) ==
  IF k > last THEN sigma
  ELSE Exec(Exec1(sigma, seq[k]), seq, k + 1, last)

(***************************************************************************)
(* Programs the vec pass starts from: the instructions defining the        *)
(* intermediate register, one vec instruction, optionally a definition     *)
(* placed after the vec and a consumer of the vec destination.             *)
(***************************************************************************)
Swz0(s) == [c \in Channels |-> IF c = 0 THEN s ELSE 0]

Reversed == [c \in Channels |-> 3 - c]

Identity == [c \in Channels |-> c]

\* what operand k of a vecN reads: an SSA value, the destination register
\* (also at another base offset or indirectly addressed) or the intermediate
OperandChoices(n, k) ==
  IF n = 2 /\ k = 1 THEN {"ssa", "dst", "tmp", "dst_off", "dst_ind"}
  ELSE {"ssa", "dst", "tmp"}

MkOperand(kind, k) ==
  CASE kind = "ssa" -> SsaSrc(1, Swz0(k))
    [] kind = "dst" -> RegSrc(0, 0, FALSE, Swz0(0))
    [] kind = "dst_off" -> RegSrc(0, 1, FALSE, Swz0(0))
    [] kind = "dst_ind" -> RegSrc(0, 0, TRUE, Swz0(0))
    [] OTHER -> RegSrc(1, 0, FALSE, Swz0(0))

\* opcode and write mask of an instruction defining the intermediate register
ProducerChoices ==
  <<<<"imov", {0}>>, <<"fneg", {0}>>, <<"fneg", {1}>>, <<"fneg", {0, 1}>>,
    <<"fdot2", {0}>>, <<"load", {0}>>>>

MkInstr(type, op, dest, src) ==
  [id |-> 0, type |-> type, op |-> op, dest |-> dest, src |-> src,
   from |-> 0, clone_of |-> 0]

MkProducer(p) ==
  IF p[1] = "load"
  THEN MkInstr("intrinsic", "load", RegDest(1, p[2]), <<>>)
  ELSE MkInstr("alu", p[1], RegDest(1, p[2]),
               [k \in 0..(NumInputs(p[1]) - 1) |-> SsaSrc(2 + k, Reversed)])

MkVec(n, dest, kinds) ==
  MkInstr("alu", CASE n = 2 -> "vec2" [] n = 3 -> "vec3" [] OTHER -> "vec4",
          dest, [k \in 0..(n - 1) |-> MkOperand(kinds[k], k)])

Consumer == MkInstr("intrinsic", "store", SsaDest({}),
                    [k \in {0} |-> RegSrc(0, 0, FALSE, Identity)])

Number(seq) == [k \in 1..Len(seq) |-> [seq[k] EXCEPT !.id = k]]

\* the block: definitions, the vec, nafter trailing definitions, the consumer
MkBlock(vec, prods, nafter, consumer) ==
  LET ps == [k \in 1..Len(prods) |-> MkProducer(prods[k])]
      nb == Len(prods) - nafter
  IN Number(SubSeq(ps, 1, nb) \o <<vec>> \o SubSeq(ps, nb + 1, Len(ps))
            \o (IF consumer THEN <<Consumer>> ELSE <<>>))

Masks(n) == {m \in SUBSET Channels : Cardinality(m) = n}

ProducerLists ==
  LET idx == UNION {[1..k -> DOMAIN ProducerChoices] : k \in 0..MaxDefs}
  IN {[k \in DOMAIN f |-> ProducerChoices[f[k]]] :
        f \in {g \in idx : \A k \in 1..(Len(g) - 1) : g[k] <= g[k + 1]}}

VecIdle ==
  /\ block = <<>> /\ block0 = <<>> /\ registers = {} /\ cur = 0
  /\ pc = "idle" /\ next_id = 0 /\ visited = <<>> /\ lowered = <<>>

DblIdle ==
  /\ impl = <<>> /\ impl0 = <<>> /\ options = {} /\ dcur = 0
  /\ dpc = "idle" /\ dnext_id = 0 /\ ifs = 0

FunIdle == arg = <<>> /\ ret = <<>>

VecInit(b) ==
  /\ DblIdle
  /\ FunIdle
  /\ block = b
  /\ block0 = b
  /\ registers = Regs
  /\ cur = b[1].id
  /\ pc = "walk"
  /\ next_id = Len(b) + 1
  /\ visited = <<>>
  /\ lowered = <<>>

\* a vec with a register destination
InitReg ==
  \E n \in 2..4 :
    \E mask \in Masks(n), kinds \in [0..(n - 1) -> OperandChoices(2, 1)],
       prods \in ProducerLists, nafter \in 0..1, consumer \in BOOLEAN :
      /\ \A k \in 0..(n - 1) : kinds[k] \in OperandChoices(n, k)
      /\ nafter <= Len(prods)
      /\ nafter = 1 => consumer
      /\ VecInit(MkBlock(MkVec(n, RegDest(0, mask), kinds), prods, nafter,
                         consumer))

\* a vec that still has an SSA destination
InitSsa ==
  \E n \in 2..4 :
    \E kinds \in [0..(n - 1) -> {"ssa", "tmp"}], prods \in ProducerLists :
      /\ Len(prods) <= 1
      /\ VecInit(MkBlock(MkVec(n, SsaDest(0..(n - 1)), kinds), prods, 0, FALSE))

InitVec == InitReg \/ InitSsa

(***************************************************************************)
(* The walk of lower_vec_to_movs_block: one step per visited instruction   *)
(***************************************************************************)
IsVec(ins) == ins.type = "alu" /\ ins.op \in VecOps

\* the walk moves to the instruction saved as next before the rewrite
Advance(nxt) ==
  /\ cur' = nxt
  /\ pc' = IF nxt = 0 THEN "done" ELSE "walk"

\* not an ALU instruction, or not a vec: continue
VisitOther ==
  /\ pc = "walk"
  /\ ~IsVec(InstrById(block, cur))
  /\ visited' = Append(visited, cur)
  /\ Advance(NextOf(block, cur))
  /\ UNCHANGED <<block, registers, next_id, block0, lowered, dblvars, funvars>>

\* assert(!vec->dest.dest.is_ssa) fails
VisitVecSsa ==
  /\ pc = "walk"
  /\ IsVec(InstrById(block, cur))
  /\ InstrById(block, cur).dest.is_ssa
  /\ visited' = Append(visited, cur)
  /\ pc' = "aborted"
  /\ UNCHANGED <<block, registers, cur, next_id, block0, lowered, dblvars,
                 funvars>>

OobOutcomes == {OobSsa, OobCrash} \cup registers

\* the enabled channels whose index is past the end of the source array
OobChannels(vec) == {i \in vec.dest.write_mask : i \notin DOMAIN vec.src}

\* a vec with a register destination is rewritten
VisitVec ==
  /\ pc = "walk"
  /\ IsVec(InstrById(block, cur))
  /\ ~InstrById(block, cur).dest.is_ssa
  /\ \E oob \in [OobChannels(InstrById(block, cur)) -> OobOutcomes] :
       LET vec == InstrById(block, cur)
           nxt == NextOf(block, cur)
           st == LowerVec(block, registers, next_id, vec, oob)
       IN /\ block' = st.instrs
          /\ registers' = st.regs
          /\ next_id' = st.nid
          /\ visited' = Append(visited, cur)
          /\ lowered' = Append(lowered, [vec |-> vec, status |-> st.status])
          /\ IF st.status # "ok"
             THEN pc' = st.status /\ cur' = cur
             ELSE IF nxt # 0 /\ ~Present(st.instrs, nxt)
             \* the saved next instruction was removed and freed
             THEN \E outcome \in {"crashed", "done"} :
                    pc' = outcome /\ cur' = nxt
             ELSE Advance(nxt)
  /\ UNCHANGED <<block0, dblvars, funvars>>

NextVec == VisitOther \/ VisitVecSsa \/ VisitVec

SpecVec == InitVec /\ [][NextVec]_vars

(***************************************************************************)
(* nir_lower_doubles: the builder.  A builder b carries the instructions   *)
(* emitted so far, the id of the next one, the place of the insertion      *)
(* cursor in the control flow, the number of if nodes created, and a stack *)
(* of frames binding the C variables and subexpressions of the function    *)
(* being executed to SSA values.  Calls that are arguments of one call are *)
(* emitted left to right.                                                  *)
(***************************************************************************)
MainList == [node |-> 0, arm |-> "main"]

Arm(node, arm) == [node |-> node, arm |-> arm]

DInstr(id, type, op, bits, ssa, srcs, cf, from, preds) ==
  [id |-> id, type |-> type, op |-> op, bit_size |-> bits, is_ssa |-> ssa,
   src |-> srcs, cf |-> cf, from |-> from, preds |-> preds]

\* the frame with name bound to the SSA value v
Bind(frame, name, v) ==
  [x \in DOMAIN frame \cup {name} |-> IF x = name THEN v ELSE frame[x]]

\* the SSA value a name of the running function stands for
Val(b, name) == b.env[1][name]

\* the builder of lower_doubles_instr, with instr->src[0] in scope
nir_builder_init(nid, nifs, instr) ==
  [instrs |-> <<>>, nid |-> nid, cursor |-> MainList, ifs |-> nifs,
   from |-> instr.id, env |-> <<Bind(<<>>, "instr->src[0]", instr.src[1])>>]

\* nir_builder_instr_insert of a newly built instruction, which name denotes
Build(b, name, type, op, bits, srcs, preds) ==
  [b EXCEPT !.instrs = Append(@, DInstr(b.nid, type, op, bits, TRUE,
                                        [k \in DOMAIN srcs |-> Val(b, srcs[k])],
                                        b.cursor, b.from, preds)),
            !.env[1] = Bind(@, name, b.nid),
            !.nid = @ + 1]

Alu(b, name, op, bits, srcs) == Build(b, name, "alu", op, bits, srcs, <<>>)

\* nir_imm_int, nir_imm_uint, nir_imm_double
Imm(b, name, bits) == Build(b, name, "load_const", "load_const", bits, <<>>, <<>>)

\* a call: the callee's parameters are bound to the caller's values
Enter(b, params, args) ==
  [b EXCEPT !.env = <<[x \in {params[k] : k \in DOMAIN params} |->
                        Val(b, args[CHOOSE k \in DOMAIN params : params[k] = x])]>>
                      \o @]

\* return name: the caller's out denotes the returned value
Return(b, out, name) ==
  [b EXCEPT !.env = <<Bind(@[2], out, @[1][name])>> \o SubSeq(@, 3, Len(@))]

set_exponent(b, out, src, exp) ==
  LET b0 == Enter(b, <<"src", "exp">>, <<src, exp>>)
      b1 == Alu(b0, "lo", "unpack_double_2x32_split_x", 32, <<"src">>)
      b2 == Alu(b1, "hi", "unpack_double_2x32_split_y", 32, <<"src">>)
      b3 == Imm(b2, "0x7ff00000", 32)
      b4 == Alu(b3, "new_hi", "bfi", 32, <<"0x7ff00000", "exp", "hi">>)
      b5 == Alu(b4, "pack", "pack_double_2x32_split", 64, <<"lo", "new_hi">>)
  IN Return(b5, out, "pack")

get_exponent(b, out, src) ==
  LET b0 == Enter(b, <<"src">>, <<src>>)
      b1 == Alu(b0, "hi", "unpack_double_2x32_split_y", 32, <<"src">>)
      b2 == Imm(b1, "20", 32)
      b3 == Imm(b2, "11", 32)
      b4 == Alu(b3, "extract", "ubitfield_extract", 32, <<"hi", "20", "11">>)
  IN Return(b4, out, "extract")

get_signed_inf(b, out, zero) ==
  LET b0 == Enter(b, <<"zero">>, <<zero>>)
      b1 == Alu(b0, "zero_split", "unpack_double_2x32", 32, <<"zero">>)
      b2 == Alu(b1, "zero_hi", "imov", 32, <<"zero_split">>)
      b3 == Imm(b2, "0x7ff00000", 32)
      b4 == Alu(b3, "inf_hi", "ior", 32, <<"0x7ff00000", "zero_hi">>)
      b5 == Imm(b4, "0", 32)
      b6 == Alu(b5, "inf_split", "vec2", 32, <<"0", "inf_hi">>)
      b7 == Alu(b6, "pack", "pack_double_2x32", 64, <<"inf_split">>)
  IN Return(b7, out, "pack")

fix_inv_result(b, out, res, src, exp) ==
  LET b0 == Enter(b, <<"res", "src", "exp">>, <<res, src, exp>>)
      b1 == Imm(b0, "0", 32)
      b2 == Alu(b1, "ige", "ige", 32, <<"0", "exp">>)
      b3 == Alu(b2, "fabs", "fabs", 64, <<"src">>)
      b4 == Imm(b3, "INFINITY", 64)
      b5 == Alu(b4, "feq", "feq", 32, <<"fabs", "INFINITY">>)
      b6 == Alu(b5, "ior", "ior", 32, <<"ige", "feq">>)
      b7 == Imm(b6, "0.0f", 64)
      b8 == Alu(b7, "res", "bcsel", 64, <<"ior", "0.0f", "res">>)
      b9 == Imm(b8, "0.0f", 64)
      b10 == Alu(b9, "fne", "fne", 32, <<"src", "0.0f">>)
      b11 == get_signed_inf(b10, "inf", "src")
      b12 == Alu(b11, "res", "bcsel", 64, <<"fne", "res", "inf">>)
  IN Return(b12, out, "res")

\* ra = nir_ffma(b, ra, nir_ffma(b, ra, src, nir_imm_double(b, -1)), ra)
RcpStep(b) ==
  LET b1 == Imm(b, "-1", 64)
      b2 == Alu(b1, "ffma", "ffma", 64, <<"ra", "src", "-1">>)
  IN Alu(b2, "ra", "ffma", 64, <<"ra", "ffma", "ra">>)

lower_rcp(b, out, src) ==
  LET b0 == Enter(b, <<"src">>, <<src>>)
      b1 == Imm(b0, "1023", 32)
      b2 == set_exponent(b1, "src_norm", "src", "1023")
      b3 == Alu(b2, "d2f", "d2f", 32, <<"src_norm">>)
      b4 == Alu(b3, "frcp", "frcp", 32, <<"d2f">>)
      b5 == Alu(b4, "ra", "f2d", 64, <<"frcp">>)
      b6 == get_exponent(b5, "exp(ra)", "ra")
      b7 == get_exponent(b6, "exp(src)", "src")
      b8 == Imm(b7, "1023", 32)
      b9 == Alu(b8, "isub", "isub", 32, <<"exp(src)", "1023">>)
      b10 == Alu(b9, "new_exp", "isub", 32, <<"exp(ra)", "isub">>)
      b11 == set_exponent(b10, "ra", "ra", "new_exp")
      b12 == RcpStep(b11)
      b13 == RcpStep(b12)
      b14 == fix_inv_result(b13, "fixed", "ra", "src", "new_exp")
  IN Return(b14, out, "fixed")

lower_sqrt_rsq(b, out, src, sqrt) ==
  LET b0 == Enter(b, <<"src">>, <<src>>)
      b1 == get_exponent(b0, "exp(src)", "src")
      b2 == Imm(b1, "1023", 32)
      b3 == Alu(b2, "unbiased_exp", "isub", 32, <<"exp(src)", "1023">>)
      b4 == Imm(b3, "1", 32)
      b5 == Alu(b4, "even", "iand", 32, <<"unbiased_exp", "1">>)
      b6 == Imm(b5, "1", 32)
      b7 == Alu(b6, "half", "ishr", 32, <<"unbiased_exp", "1">>)
      b8 == Imm(b7, "1023", 32)
      b9 == Alu(b8, "iadd", "iadd", 32, <<"1023", "even">>)
      b10 == set_exponent(b9, "src_norm", "src", "iadd")
      b11 == Alu(b10, "d2f", "d2f", 32, <<"src_norm">>)
      b12 == Alu(b11, "frsq", "frsq", 32, <<"d2f">>)
      b13 == Alu(b12, "ra", "f2d", 64, <<"frsq">>)
      b14 == get_exponent(b13, "exp(ra)", "ra")
      b15 == Alu(b14, "new_exp", "isub", 32, <<"exp(ra)", "half">>)
      b16 == set_exponent(b15, "ra", "ra", "new_exp")
      b17 == Imm(b16, "one_half", 64)
      b18 == Alu(b17, "h_0", "fmul", 64, <<"one_half", "ra">>)
      b19 == Alu(b18, "g_0", "fmul", 64, <<"src", "ra">>)
      b20 == Alu(b19, "fneg", "fneg", 64, <<"h_0">>)
      b21 == Alu(b20, "r_0", "ffma", 64, <<"fneg", "g_0", "one_half">>)
      b22 == Alu(b21, "h_1", "ffma", 64, <<"h_0", "r_0", "h_0">>)
      s1 == Alu(b22, "g_1", "ffma", 64, <<"g_0", "r_0", "g_0">>)
      s2 == Alu(s1, "fneg", "fneg", 64, <<"g_1">>)
      s3 == Alu(s2, "r_1", "ffma", 64, <<"fneg", "g_1", "src">>)
      s4 == Alu(s3, "res", "ffma", 64, <<"h_1", "r_1", "g_1">>)
      s5 == Imm(s4, "0.0", 64)
      s6 == Alu(s5, "feq0", "feq", 32, <<"src", "0.0">>)
      s7 == Imm(s6, "INFINITY", 64)
      s8 == Alu(s7, "feqinf", "feq", 32, <<"src", "INFINITY">>)
      s9 == Alu(s8, "ior", "ior", 32, <<"feq0", "feqinf">>)
      s10 == Alu(s9, "res", "bcsel", 64, <<"ior", "src", "res">>)
      r1 == Imm(b22, "2.0", 64)
      r2 == Alu(r1, "y_1", "fmul", 64, <<"2.0", "h_1">>)
      r3 == Alu(r2, "fneg", "fneg", 64, <<"y_1">>)
      r4 == Alu(r3, "fmul", "fmul", 64, <<"h_1", "src">>)
      r5 == Alu(r4, "r_1", "ffma", 64, <<"fneg", "fmul", "one_half">>)
      r6 == Alu(r5, "res", "ffma", 64, <<"y_1", "r_1", "y_1">>)
      r7 == fix_inv_result(r6, "res", "res", "src", "new_exp")
  IN Return(IF sqrt THEN s10 ELSE r7, out, "res")

\* nir_cf_node_insert of a new if node at the cursor
InsertIf(b) == [b EXCEPT !.ifs = @ + 1]

\* b->cursor = nir_after_cf_list(then_list / else_list), nir_after_cf_node
SetCursor(b, arm) ==
  [b EXCEPT !.cursor = IF arm = "main" THEN MainList ELSE Arm(b.ifs, arm)]

\* the phi merging the values of the two arms of the if node created last
Phi(b, name, then_dest, else_dest) ==
  Build(b, name, "phi", "phi", 64, <<then_dest, else_dest>>,
        <<Arm(b.ifs, "then"), Arm(b.ifs, "else")>>)

lower_trunc(b, out, src) ==
  LET b0 == Enter(b, <<"src">>, <<src>>)
      b1 == get_exponent(b0, "exp(src)", "src")
      b2 == Imm(b1, "1023", 32)
      b3 == Alu(b2, "unbiased_exp", "isub", 32, <<"exp(src)", "1023">>)
      b4 == Imm(b3, "52", 32)
      b5 == Alu(b4, "frac_bits", "isub", 32, <<"52", "unbiased_exp">>)
      b6 == Imm(b5, "0", 32)
      b7 == Alu(b6, "condition1", "ige", 32, <<"unbiased_exp", "0">>)
      b8 == Imm(b7, "53", 32)
      b9 == Alu(b8, "condition2", "ilt", 32, <<"unbiased_exp", "53">>)
      b10 == Alu(b9, "condition", "iand", 32, <<"condition1", "condition2">>)
      b11 == InsertIf(b10)
      t0 == SetCursor(b11, "then")
      t1 == Imm(t0, "32", 32)
      t2 == Alu(t1, "ige", "ige", 32, <<"frac_bits", "32">>)
      t3 == Imm(t2, "0xffffffff", 32)
      t4 == Imm(t3, "1", 32)
      t5 == Alu(t4, "ishl", "ishl", 32, <<"1", "frac_bits">>)
      t6 == Imm(t5, "1", 32)
      t7 == Alu(t6, "isub", "isub", 32, <<"ishl", "1">>)
      t8 == Alu(t7, "mask_lo", "bcsel", 32, <<"ige", "0xffffffff", "isub">>)
      t9 == Imm(t8, "33", 32)
      t10 == Alu(t9, "ilt", "ilt", 32, <<"frac_bits", "33">>)
      t11 == Imm(t10, "0", 32)
      t12 == Imm(t11, "1", 32)
      t13 == Imm(t12, "32", 32)
      t14 == Alu(t13, "isub", "isub", 32, <<"frac_bits", "32">>)
      t15 == Alu(t14, "ishl", "ishl", 32, <<"1", "isub">>)
      t16 == Imm(t15, "1", 32)
      t17 == Alu(t16, "isub", "isub", 32, <<"ishl", "1">>)
      t18 == Alu(t17, "mask_hi", "bcsel", 32, <<"ilt", "0", "isub">>)
      t19 == Alu(t18, "then_dest", "pack_double_2x32_split", 64,
                 <<"mask_lo", "mask_hi">>)
      e0 == SetCursor(t19, "else")
      e1 == Imm(e0, "0", 32)
      e2 == Alu(e1, "ilt", "ilt", 32, <<"unbiased_exp", "0">>)
      e3 == Imm(e2, "0xffffffff", 32)
      e4 == Imm(e3, "0x7fffffff", 32)
      e5 == Alu(e4, "pack", "pack_double_2x32_split", 64,
                <<"0xffffffff", "0x7fffffff">>)
      e6 == Imm(e5, "0.0", 64)
      e7 == Alu(e6, "else_dest", "bcsel", 64, <<"ilt", "pack", "0.0">>)
      a0 == SetCursor(e7, "main")
      a1 == Phi(a0, "mask", "then_dest", "else_dest")
      a2 == Alu(a1, "mask_lo", "unpack_double_2x32_split_x", 32, <<"mask">>)
      a3 == Alu(a2, "mask_hi", "unpack_double_2x32_split_y", 32, <<"mask">>)
      a4 == Alu(a3, "src_lo", "unpack_double_2x32_split_x", 32, <<"src">>)
      a5 == Alu(a4, "src_hi", "unpack_double_2x32_split_y", 32, <<"src">>)
      a6 == Imm(a5, "zero", 32)
      a7 == Alu(a6, "new_src_lo", "bfi", 32, <<"mask_lo", "zero", "src_lo">>)
      a8 == Alu(a7, "new_src_hi", "bfi", 32, <<"mask_hi", "zero", "src_hi">>)
      a9 == Alu(a8, "pack", "pack_double_2x32_split", 64,
                <<"new_src_lo", "new_src_hi">>)
  IN Return(a9, out, "pack")

lower_floor(b, out, src) ==
  LET b0 == Enter(b, <<"src">>, <<src>>)
      b1 == Alu(b0, "tr", "ftrunc", 64, <<"src">>)
      b2 == Imm(b1, "0.0", 64)
      b3 == Alu(b2, "fge", "fge", 32, <<"src", "0.0">>)
      b4 == Alu(b3, "fsub", "fsub", 64, <<"src", "tr">>)
      b5 == Imm(b4, "0.0f", 64)
      b6 == Alu(b5, "fne", "fne", 32, <<"fsub", "0.0f">>)
      b7 == Imm(b6, "1.0", 64)
      b8 == Alu(b7, "fsub", "fsub", 64, <<"tr", "1.0">>)
      b9 == Alu(b8, "inner", "bcsel", 64, <<"fne", "fsub", "src">>)
      b10 == Alu(b9, "bcsel", "bcsel", 64, <<"fge", "tr", "inner">>)
  IN Return(b10, out, "bcsel")

lower_ceil(b, out, src) ==
  LET b0 == Enter(b, <<"src">>, <<src>>)
      b1 == Alu(b0, "tr", "ftrunc", 64, <<"src">>)
      b2 == Imm(b1, "0.0", 64)
      b3 == Alu(b2, "flt", "flt", 32, <<"src", "0.0">>)
      b4 == Alu(b3, "fneg", "fneg", 64, <<"src">>)
      b5 == Alu(b4, "ffloor", "ffloor", 64, <<"fneg">>)
      b6 == Alu(b5, "fneg", "fneg", 64, <<"ffloor">>)
      b7 == Alu(b6, "bcsel", "bcsel", 64, <<"flt", "tr", "fneg">>)
  IN Return(b7, out, "bcsel")

lower_fract(b, out, src) ==
  LET b0 == Enter(b, <<"src">>, <<src>>)
      b1 == Alu(b0, "ffloor", "ffloor", 64, <<"src">>)
      b2 == Alu(b1, "fsub", "fsub", 64, <<"src", "ffloor">>)
  IN Return(b2, out, "fsub")

lower_round_even(b, out, src) ==
  LET b0 == Enter(b, <<"src">>, <<src>>)
      b1 == Alu(b0, "fract", "ffract", 64, <<"src">>)
      b2 == Imm(b1, "0.5", 64)
      b3 == Alu(b2, "condition", "fne", 32, <<"fract", "0.5">>)
      b4 == InsertIf(b3)
      t0 == SetCursor(b4, "then")
      t1 == Imm(t0, "0.5", 64)
      t2 == Alu(t1, "fadd", "fadd", 64, <<"src", "0.5">>)
      t3 == Alu(t2, "then_dest", "ffloor", 64, <<"fadd">>)
      e0 == SetCursor(t3, "else")
      e1 == Imm(e0, "two", 64)
      e2 == Alu(e1, "abs_src", "fabs", 64, <<"src">>)
      e3 == Imm(e2, "0.5", 64)
      e4 == Alu(e3, "fmul", "fmul", 64, <<"abs_src", "0.5">>)
      e5 == Alu(e4, "ffloor", "ffloor", 64, <<"fmul">>)
      e6 == Alu(e5, "fmul", "fmul", 64, <<"two", "ffloor">>)
      e7 == Alu(e6, "mod", "fsub", 64, <<"abs_src", "fmul">>)
      e8 == Imm(e7, "1.0", 64)
      e9 == Alu(e8, "flt", "flt", 32, <<"mod", "1.0">>)
      e10 == Alu(e9, "ftrunc", "ftrunc", 64, <<"src">>)
      e11 == Imm(e10, "0.0", 64)
      e12 == Alu(e11, "fge", "fge", 32, <<"src", "0.0">>)
      e13 == Imm(e12, "0.5", 64)
      e14 == Alu(e13, "fadd", "fadd", 64, <<"src", "0.5">>)
      e15 == Imm(e14, "0.5", 64)
      e16 == Alu(e15, "fsub", "fsub", 64, <<"src", "0.5">>)
      e17 == Alu(e16, "inner", "bcsel", 64, <<"fge", "fadd", "fsub">>)
      e18 == Alu(e17, "else_dest", "bcsel", 64, <<"flt", "ftrunc", "inner">>)
      a0 == SetCursor(e18, "main")
      a1 == Phi(a0, "phi", "then_dest", "else_dest")
  IN Return(a1, out, "phi")

(***************************************************************************)
(* lower_doubles_instr and the walk of lower_doubles_block                 *)
(***************************************************************************)
HandledOps ==
  {"frcp", "fsqrt", "frsq", "ftrunc", "ffloor", "fceil", "ffract",
   "fround_even"}

\* the option flag the first switch of lower_doubles_instr tests for an opcode
FlagOf(op) ==
  CASE op = "frcp" -> "nir_lower_drcp"
    [] op = "fsqrt" -> "nir_lower_dsqrt"
    [] op = "frsq" -> "nir_lower_drsq"
    [] op = "ftrunc" -> "nir_lower_dtrunc"
    [] op = "ffloor" -> "nir_lower_dfloor"
    [] op = "fceil" -> "nir_lower_dceil"
    [] op = "ffract" -> "nir_lower_dfract"
    [] OTHER -> "nir_lower_dround_even"

AllOptions == {FlagOf(op) : op \in HandledOps}

\* the first switch alone, without the bit size test
ShouldLower_AnySize(instr, opts) ==
  /\ instr.op \in HandledOps
  /\ FlagOf(instr.op) \in opts

\* the instruction passes the bit size test and the first switch
ShouldLower(instr, opts) ==
  /\ instr.bit_size = 64
  /\ instr.op \in HandledOps
  /\ FlagOf(instr.op) \in opts

\* the second switch of lower_doubles_instr
Decompose(b, op, src) ==
  CASE op = "frcp" -> lower_rcp(b, "result", src)
    [] op = "fsqrt" -> lower_sqrt_rsq(b, "result", src, TRUE)
    [] op = "frsq" -> lower_sqrt_rsq(b, "result", src, FALSE)
    [] op = "ftrunc" -> lower_trunc(b, "result", src)
    [] op = "ffloor" -> lower_floor(b, "result", src)
    [] op = "fceil" -> lower_ceil(b, "result", src)
    [] op = "ffract" -> lower_fract(b, "result", src)
    [] OTHER -> lower_round_even(b, "result", src)

nir_ssa_def_rewrite_uses(instrs, def, new) ==
  [k \in DOMAIN instrs |->
     [instrs[k] EXCEPT !.src = [j \in DOMAIN @ |->
                                  IF @[j] = def THEN new ELSE @[j]]]]

\* removal of the instruction without nir_ssa_def_rewrite_uses
Splice_NoRewrite(instrs, instr, result) ==
  nir_instr_remove(instrs, instr.id)

\* the end of lower_doubles_instr: uses of the destination are rewritten to
\* the replacement value and the instruction is removed
Splice(instrs, instr, result) ==
  nir_instr_remove(nir_ssa_def_rewrite_uses(instrs, instr.id, result), instr.id)

\* the builder after the replacement of instr has been emitted: the source
\* is materialised by nir_fmov_alu and handed to the decomposition function
Replacement(instr, nid, nifs) ==
  LET b1 == Alu(nir_builder_init(nid, nifs, instr), "src", "fmov", 64,
                <<"instr->src[0]">>)
  IN Decompose(b1, instr.op, "src")

\* the end of lower_doubles_instr for the builder b that emitted the
\* replacement: the emitted instructions are before instr
\* (bld.cursor = nir_before_instr), the uses are rewritten, instr is removed
Finish(instrs, instr, b) ==
  [instrs |-> Splice(SubSeq(instrs, 1, IndexOf(instrs, instr.id, 1) - 1)
                       \o b.instrs
                       \o SubSeq(instrs, IndexOf(instrs, instr.id, 1), Len(instrs)),
                     instr, Val(b, "result")),
   nid |-> b.nid, ifs |-> b.ifs, result |-> Val(b, "result")]

\* lower_doubles_instr for an instruction that is lowered
lower_doubles_instr(instrs, instr, nid, nifs) ==
  Finish(instrs, instr, Replacement(instr, nid, nifs))

DAdvance(nxt) ==
  /\ dcur' = nxt
  /\ dpc' = IF nxt = 0 THEN "done" ELSE "walk"

\* instr->type != nir_instr_type_alu: continue
DVisitOther ==
  /\ dpc = "walk"
  /\ InstrById(impl, dcur).type # "alu"
  /\ DAdvance(NextOf(impl, dcur))
  /\ UNCHANGED <<impl, options, dnext_id, ifs, impl0, vecvars, funvars>>

\* the walk of nir_lower_doubles going on past the failed assertion
DVisitAbort_continue ==
  /\ dpc = "walk"
  /\ InstrById(impl, dcur).type = "alu"
  /\ ~InstrById(impl, dcur).is_ssa
  /\ DAdvance(NextOf(impl, dcur))
  /\ UNCHANGED <<impl, options, dnext_id, ifs, impl0, vecvars, funvars>>

\* assert(instr->dest.dest.is_ssa) fails
DVisitAbort ==
  /\ dpc = "walk"
  /\ InstrById(impl, dcur).type = "alu"
  /\ ~InstrById(impl, dcur).is_ssa
  /\ dpc' = "aborted"
  /\ UNCHANGED <<impl, options, dcur, dnext_id, ifs, impl0, vecvars, funvars>>

\* lower_doubles_instr returns early
DVisitSkip ==
  /\ dpc = "walk"
  /\ InstrById(impl, dcur).type = "alu"
  /\ InstrById(impl, dcur).is_ssa
  /\ ~ShouldLower(InstrById(impl, dcur), options)
  /\ DAdvance(NextOf(impl, dcur))
  /\ UNCHANGED <<impl, options, dnext_id, ifs, impl0, vecvars, funvars>>

\* the function after lower_doubles_instr returned r
Lowered(r) ==
  /\ impl' = r.instrs
  /\ dnext_id' = r.nid
  /\ ifs' = r.ifs

\* lower_doubles_instr replaces the instruction
DVisitLower ==
  /\ dpc = "walk"
  /\ InstrById(impl, dcur).type = "alu"
  /\ InstrById(impl, dcur).is_ssa
  /\ ShouldLower(InstrById(impl, dcur), options)
  /\ Lowered(lower_doubles_instr(impl, InstrById(impl, dcur), dnext_id, ifs))
  /\ DAdvance(NextOf(impl, dcur))
  /\ UNCHANGED <<options, impl0, vecvars, funvars>>

NextDbl == DVisitOther \/ DVisitAbort \/ DVisitSkip \/ DVisitLower

(***************************************************************************)
(* Functions the doubles pass starts from                                  *)
(***************************************************************************)
MaxInstrs == 2   \* number of instructions in the function before the pass

\* type, opcode, destination bit size, destination is SSA
InstrChoices ==
  {<<"alu", op, 64, TRUE>> : op \in HandledOps \cup {"fadd"}}
    \cup {<<"alu", "frcp", 32, TRUE>>, <<"alu", "ffloor", 32, TRUE>>,
          <<"alu", "ffloor", 64, FALSE>>, <<"intrinsic", "store", 32, TRUE>>}

OptionChoices == {AllOptions, {}} \cup {{f} : f \in AllOptions}

\* instruction k reads the value of instruction k - 1 when chained and that
\* instruction defines an SSA value, a value defined outside the block (0)
\* otherwise; fadd reads it twice
MkFunction(choice, chained) ==
  [k \in 1..Len(choice) |->
     LET v == IF chained /\ k > 1 /\ choice[k - 1][1] = "alu" /\ choice[k - 1][4]
              THEN k - 1 ELSE 0
     IN DInstr(k, choice[k][1], choice[k][2], choice[k][3], choice[k][4],
               IF choice[k][2] = "fadd" THEN <<v, v>> ELSE <<v>>,
               MainList, 0, <<>>)]

InitDbl ==
  \E n \in 1..MaxInstrs :
    \E choice \in [1..n -> InstrChoices], chained \in BOOLEAN,
       opts \in OptionChoices :
      /\ VecIdle
      /\ FunIdle
      /\ impl = MkFunction(choice, chained)
      /\ impl0 = impl
      /\ options = opts
      /\ dcur = 1
      /\ dpc = "walk"
      /\ dnext_id = n + 1
      /\ ifs = 0

SpecDbl == InitDbl /\ [][NextDbl]_vars

(***************************************************************************)
(* Either pass, run on a shader of its own                                 *)
(***************************************************************************)
SpecBoth == (InitVec \/ InitDbl) /\ [][NextVec \/ NextDbl]_vars

(***************************************************************************)
(* Values of the decomposition functions.  A 32-bit word is the set of its *)
(* set bit positions, a double the pair of its low and high words.         *)
(***************************************************************************)
MaxMant == 3       \* mantissa patterns 0..MaxMant are drawn
MaxExpDelta == 2   \* corrected exponents -MaxExpDelta..MaxExpDelta are drawn

WordBits == 0..31

pack_double_2x32_split(lo, hi) == [lo |-> lo, hi |-> hi]

unpack_double_2x32_split_x(d) == d.lo

unpack_double_2x32_split_y(d) == d.hi

RECURSIVE Pow2(_)
Pow2(n) == IF n = 0 THEN 1 ELSE 2 * Pow2(n - 1)

\* nir_ubitfield_extract: the unsigned value of bits offset..offset+bits-1
RECURSIVE ubitfield_extract(_, _, _)
ubitfield_extract(word, offset, bits) ==
  IF bits = 0 THEN 0
  ELSE (IF offset + bits - 1 \in word THEN Pow2(bits - 1) ELSE 0)
       + ubitfield_extract(word, offset, bits - 1)

\* nir_ishl: the shift count is taken modulo 32
ishl(word, n) == {b + (n % 32) : b \in word} \cap WordBits

\* nir_isub(x, nir_imm_int(1)) on a word, wrapping at zero
isub1(word) ==
  IF word = {} THEN WordBits
  ELSE (word \ {Min(word)}) \cup 0..(Min(word) - 1)

\* a bitfield insert that leaves the inserted value at bit 0
bfi_noshift(mask, insert, base) ==
  IF mask = {} THEN base
  ELSE (base \ mask) \cup (insert \cap mask)

\* nir_bfi(mask, insert, base)
bfi(mask, insert, base) ==
  IF mask = {} THEN base
  ELSE (base \ mask) \cup ({b + Min(mask) : b \in insert} \cap mask)

bcsel(c, a, b) == IF c THEN a ELSE b

SignBit == 31

ExponentBits == 20..30         \* 0x7ff00000

AllOnes == WordBits            \* 0xffffffff

PositiveZero == pack_double_2x32_split({}, {})

INFINITY == pack_double_2x32_split({}, ExponentBits)

IsNaN(d) ==
  /\ ExponentBits \subseteq d.hi
  /\ (d.lo # {} \/ d.hi \ (ExponentBits \cup {SignBit}) # {})

IsZero(d) == d.lo = {} /\ d.hi \subseteq {SignBit}

feq(a, b) == ~IsNaN(a) /\ ~IsNaN(b) /\ (a = b \/ (IsZero(a) /\ IsZero(b)))

fne(a, b) == ~feq(a, b)

fabs(d) == [d EXCEPT !.hi = @ \ {SignBit}]

get_exponent_val(src) == ubitfield_extract(unpack_double_2x32_split_y(src), 20, 11)

\* positive infinity whatever the sign of the zero
get_signed_inf_val_nosign(zero) == pack_double_2x32_split({}, ExponentBits)

get_signed_inf_val(zero) ==
  LET zero_hi == zero.hi
      inf_hi == ExponentBits \cup zero_hi
  IN pack_double_2x32_split({}, inf_hi)

fix_inv_result_val(res, src, exp) ==
  LET res1 == bcsel(0 >= exp \/ feq(fabs(src), INFINITY), PositiveZero, res)
  IN bcsel(fne(src, PositiveZero), res1, get_signed_inf_val(src))

\* mask_lo with frac_bits compared to 33 instead of 32
TruncMaskLo_ge33(frac_bits) ==
  bcsel(frac_bits >= 33, AllOnes, isub1(ishl({0}, frac_bits)))

\* mask_lo of the then arm of lower_trunc
TruncMaskLo(frac_bits) ==
  bcsel(frac_bits >= 32, AllOnes, isub1(ishl({0}, frac_bits)))

\* mask_hi of the then arm of lower_trunc
TruncMaskHi(frac_bits) ==
  bcsel(frac_bits < 33, {}, isub1(ishl({0}, frac_bits - 32)))

\* lower_trunc, with the masks and the shift counts of the selected ishl
\* operands (-1 where the bcsel selects the other operand)
lower_trunc_val(src) ==
  LET unbiased_exp == get_exponent_val(src) - 1023
      frac_bits == 52 - unbiased_exp
      condition == unbiased_exp >= 0 /\ unbiased_exp < 53
      then_dest == pack_double_2x32_split(TruncMaskLo(frac_bits),
                                          TruncMaskHi(frac_bits))
      else_dest == bcsel(unbiased_exp < 0,
                         pack_double_2x32_split(AllOnes, 0..30),
                         PositiveZero)
      mask == IF condition THEN then_dest ELSE else_dest      \* the phi
      mask_lo == unpack_double_2x32_split_x(mask)
      mask_hi == unpack_double_2x32_split_y(mask)
      new_src_lo == bfi(mask_lo, {}, unpack_double_2x32_split_x(src))
      new_src_hi == bfi(mask_hi, {}, unpack_double_2x32_split_y(src))
  IN [value |-> pack_double_2x32_split(new_src_lo, new_src_hi),
      mask_lo |-> mask_lo, mask_hi |-> mask_hi,
      shift_lo |-> IF condition /\ ~(frac_bits >= 32) THEN frac_bits ELSE 0 - 1,
      shift_hi |-> IF condition /\ ~(frac_bits < 33) THEN frac_bits - 32
                   ELSE 0 - 1]

(***************************************************************************)
(* Inputs of the decomposition functions                                   *)
(***************************************************************************)
MantissaBits == 0..51

\* mantissa pattern p: none, all, or every p-th bit
Mantissa(p) ==
  IF p = 0 THEN {}
  ELSE {b \in MantissaBits : b % p = 0}

\* the double with the given sign, biased exponent field and mantissa bits
MkDouble(sign, e, mant) ==
  pack_double_2x32_split(
    {b \in mant : b < 32},
    {b - 32 : b \in {m \in mant : m >= 32}}
      \cup {20 + j : j \in {k \in 0..10 : (e \div Pow2(k)) % 2 = 1}}
      \cup (IF sign THEN {SignBit} ELSE {}))

ExponentFields == 0..2047

Doubles(fields) ==
  {[sign |-> sg, e |-> e, mant |-> Mantissa(p), bits |-> MkDouble(sg, e, Mantissa(p))] :
     sg \in BOOLEAN, e \in fields, p \in 0..MaxMant}

FunInit(a) ==
  /\ VecIdle
  /\ DblIdle
  /\ arg = <<a>>
  /\ ret = <<>>

\* lower_trunc on every exponent field
InitTrunc == \E x \in Doubles(ExponentFields) : FunInit([src |-> x])

EvalTrunc ==
  /\ arg # <<>> /\ ret = <<>>
  /\ ret' = <<lower_trunc_val(arg[1].src.bits)>>
  /\ UNCHANGED <<arg, vecvars, dblvars>>

NextTrunc == EvalTrunc

SpecTrunc == InitTrunc /\ [][NextTrunc]_vars

\* fix_inv_result on zeros, denormals, normals, infinities and NaNs
InitFixInv ==
  \E x \in Doubles({0, 1, 1023, 2046, 2047}), r \in Doubles({1, 1023}),
     e \in (0 - MaxExpDelta)..MaxExpDelta :
    FunInit([src |-> x, res |-> r, exp |-> e])

EvalFixInv ==
  /\ arg # <<>> /\ ret = <<>>
  /\ ret' = <<fix_inv_result_val(arg[1].res.bits, arg[1].src.bits, arg[1].exp)>>
  /\ UNCHANGED <<arg, vecvars, dblvars>>

NextFixInv == EvalFixInv

SpecFixInv == InitFixInv /\ [][NextFixInv]_vars

(***************************************************************************)
(* Exact arithmetic for the rounding functions.  A value is a sign and a   *)
(* magnitude counted in units of 1/Unit, so that -0 differs from +0; the   *)
(* operations are those of IEEE arithmetic where no rounding occurs.       *)
(***************************************************************************)
MaxInt == 3        \* magnitudes up to MaxInt are drawn

Unit == 8

QVal(neg, q) == [neg |-> neg, q |-> q]

\* the signed number of units a value stands for
Num(v) == IF v.neg THEN 0 - v.q ELSE v.q

Abs(n) == IF n < 0 THEN 0 - n ELSE n

QZero == QVal(FALSE, 0)        \* nir_imm_double(b, 0.0)

QHalf == QVal(FALSE, Unit \div 2)   \* nir_imm_double(b, 0.5)

QOne == QVal(FALSE, Unit)      \* nir_imm_double(b, 1.0)

QTwo == QVal(FALSE, 2 * Unit)  \* nir_imm_double(b, 2.0)

fneg_q(a) == QVal(~a.neg, a.q)

fabs_q(a) == QVal(FALSE, a.q)

\* a zero sum is -0 only when both addends are negative
fadd_q(a, b) ==
  LET n == Num(a) + Num(b)
  IN IF n = 0 THEN QVal(a.neg /\ b.neg, 0) ELSE QVal(n < 0, Abs(n))

fsub_q(a, b) == fadd_q(a, fneg_q(b))

fmul_q(a, b) == QVal(a.neg # b.neg, (a.q * b.q) \div Unit)

fge_q(a, b) == Num(a) >= Num(b)

flt_q(a, b) == Num(a) < Num(b)

fne_q(a, b) == Num(a) # Num(b)

\* nir_ftrunc: the fraction of the magnitude is dropped, the sign is kept
ftrunc_q(a) == QVal(a.neg, (a.q \div Unit) * Unit)

\* nir_ffloor as an operation of the hardware: a zero result keeps the sign
\* of the operand
ffloor_q(a) ==
  LET n == (Num(a) \div Unit) * Unit
  IN IF n = 0 THEN QVal(a.neg, 0) ELSE QVal(n < 0, Abs(n))

\* nir_ffract as an operation of the hardware
ffract_q(a) == fsub_q(a, ffloor_q(a))

\* lower_floor returning tr on every path
lower_floor_val_tr(src) == ftrunc_q(src)

lower_floor_val(src) ==
  LET tr == ftrunc_q(src)
  IN bcsel(fge_q(src, QZero),
           tr,
           bcsel(fne_q(fsub_q(src, tr), QZero),
                 fsub_q(tr, QOne),
                 src))

lower_ceil_val(src) ==
  LET tr == ftrunc_q(src)
  IN bcsel(flt_q(src, QZero),
           tr,
           fneg_q(ffloor_q(fneg_q(src))))

lower_fract_val(src) == fsub_q(src, ffloor_q(src))

\* the else arm of lower_round_even with the parity test on mod inverted
RoundEvenElse_odd(src) ==
  LET abs_src == fabs_q(src)
      mod == fsub_q(abs_src,
                    fmul_q(QTwo, ffloor_q(fmul_q(abs_src, QHalf))))
  IN bcsel(fge_q(mod, QOne),
           ftrunc_q(src),
           bcsel(fge_q(src, QZero), fadd_q(src, QHalf), fsub_q(src, QHalf)))

\* the else arm of lower_round_even
RoundEvenElse(src) ==
  LET abs_src == fabs_q(src)
      mod == fsub_q(abs_src,
                    fmul_q(QTwo, ffloor_q(fmul_q(abs_src, QHalf))))
  IN bcsel(flt_q(mod, QOne),
           ftrunc_q(src),
           bcsel(fge_q(src, QZero), fadd_q(src, QHalf), fsub_q(src, QHalf)))

\* lower_round_even: the value of the phi, and the arm that supplied it
lower_round_even_val(src) ==
  LET fract == ffract_q(src)
      condition == fne_q(fract, QHalf)
      then_dest == ffloor_q(fadd_q(src, QHalf))
  IN [value |-> IF condition THEN then_dest ELSE RoundEvenElse(src),
      arm |-> IF condition THEN "then" ELSE "else"]

\* the multiples of 1/4 of both signs up to MaxInt, with both zeros
QValues == {QVal(sg, 2 * k) : sg \in BOOLEAN, k \in 0..(MaxInt * (Unit \div 2))}

RoundFns == {"floor", "ceil", "fract", "round_even"}

InitRound ==
  \E fn \in RoundFns, x \in QValues : FunInit([fn |-> fn, x |-> x])

EvalFn(fn, value) ==
  /\ arg # <<>> /\ ret = <<>>
  /\ arg[1].fn = fn
  /\ ret' = <<value>>
  /\ UNCHANGED <<arg, vecvars, dblvars>>

EvalFloor == EvalFn("floor", lower_floor_val(arg[1].x))

EvalCeil == EvalFn("ceil", lower_ceil_val(arg[1].x))

EvalFract == EvalFn("fract", lower_fract_val(arg[1].x))

EvalRoundEven == EvalFn("round_even", lower_round_even_val(arg[1].x))

NextRound == EvalFloor \/ EvalCeil \/ EvalFract \/ EvalRoundEven

SpecRound == InitRound /\ [][NextRound]_vars

(***************************************************************************)
(* The refinement of lower_rcp in exact arithmetic.  A value is a fraction *)
(* n/d with d > 0; fused multiply-add is exact on fractions.               *)
(***************************************************************************)
Rat(n, d) == [n |-> n, d |-> d]

\* nir_ffma(b, x, y, z): x * y + z
ffma_r(x, y, z) == Rat(x.n * y.n * z.d + z.n * x.d * y.d, x.d * y.d * z.d)

\* ra = nir_ffma(b, ra, nir_ffma(b, ra, src, nir_imm_double(b, -1)), ra)
RcpStep_val(ra, src) == ffma_r(ra, ffma_r(ra, src, Rat(-1, 1)), ra)

\* estimates in eighths around the sources' reciprocals, whole sources
InitRcp ==
  \E x \in (0 - 2 * MaxInt)..(2 * MaxInt), s \in (0 - MaxInt)..MaxInt :
    FunInit([ra |-> Rat(x, Unit), src |-> Rat(s, 1)])

\* one of the two refinement steps, applied to the latest estimate
EvalRcpStep ==
  /\ arg # <<>> /\ "ra" \in DOMAIN arg[1]
  /\ Len(ret) < 2
  /\ ret' = Append(ret, RcpStep_val(IF ret = <<>> THEN arg[1].ra
                                    ELSE ret[Len(ret)], arg[1].src))
  /\ UNCHANGED <<arg, vecvars, dblvars>>

SpecRcp == InitRcp /\ [][EvalRcpStep]_vars

(***************************************************************************)
(* The exponent arithmetic of lower_sqrt_rsq and set_exponent on 32-bit    *)
(* two's complement words                                                  *)
(***************************************************************************)
\* the word holding the integer n, -2^31 <= n < 2^31
Word(n) ==
  {b \in 0..30 : (n \div Pow2(b)) % 2 = 1} \cup (IF n < 0 THEN {SignBit} ELSE {})

\* the signed integer a word holds
SInt(word) ==
  IF SignBit \in word
  THEN 0 - 1 - ubitfield_extract(WordBits \ word, 0, 31)
  ELSE ubitfield_extract(word, 0, 31)

iand(x, y) == x \cap y

\* a logical shift right: zeros enter at the top
ishr_logical(word, n) == {b - n : b \in {c \in word : c >= n}}

\* nir_ishr: the sign bit is copied into the vacated positions
ishr(word, n) ==
  {b - n : b \in {c \in word : c >= n}}
    \cup (IF SignBit \in word THEN (32 - n)..31 ELSE {})

set_exponent_val(src, exp) ==
  LET lo == unpack_double_2x32_split_x(src)
      hi == unpack_double_2x32_split_y(src)
      new_hi == bfi(ExponentBits, exp, hi)
  IN pack_double_2x32_split(lo, new_hi)

\* unbiased_exp, even, half, src_norm and new_exp of lower_sqrt_rsq, for a
\* seed ra whose exponent field is seed_exp
sqrt_exponents(src, seed_exp) ==
  LET unbiased_exp == Word(get_exponent_val(src) - 1023)
      even == iand(unbiased_exp, Word(1))
      half == ishr(unbiased_exp, 1)
  IN [unbiased_exp |-> unbiased_exp,
      even |-> even,
      half |-> half,
      src_norm |-> set_exponent_val(src, Word(1023 + SInt(even))),
      new_exp |-> Word(seed_exp - SInt(half))]

\* the single-precision rsq of a value in [1, 4) lies in (1/2, 1]
InitSqrt ==
  \E x \in Doubles(ExponentFields), seed_exp \in {1022, 1023} :
    FunInit([src |-> x, seed_exp |-> seed_exp])

EvalSqrtExponents ==
  /\ arg # <<>> /\ "seed_exp" \in DOMAIN arg[1]
  /\ ret = <<>>
  /\ ret' = <<sqrt_exponents(arg[1].src.bits, arg[1].seed_exp)>>
  /\ UNCHANGED <<arg, vecvars, dblvars>>

SpecSqrt == InitSqrt /\ [][EvalSqrtExponents]_vars

\* set_exponent on zeros, denormals, normals, infinities and NaNs, with
\* every exponent field
InitSetExponent ==
  \E x \in Doubles({0, 1023, 2047}), e \in ExponentFields :
    FunInit([x |-> x, e |-> e])

EvalSetExponent ==
  /\ arg # <<>> /\ "e" \in DOMAIN arg[1]
  /\ ret = <<>>
  /\ ret' = <<set_exponent_val(arg[1].x.bits, Word(arg[1].e))>>
  /\ UNCHANGED <<arg, vecvars, dblvars>>

\* get_exponent of the double set_exponent returned
EvalGetExponent ==
  /\ arg # <<>> /\ "e" \in DOMAIN arg[1]
  /\ Len(ret) = 1
  /\ ret' = Append(ret, get_exponent_val(ret[1]))
  /\ UNCHANGED <<arg, vecvars, dblvars>>

NextSetExponent == EvalSetExponent \/ EvalGetExponent

SpecSetExponent == InitSetExponent /\ [][NextSetExponent]_vars

(***************************************************************************)
(* Vocabulary of the claims about the vec pass                             *)
(***************************************************************************)
\* a vec has been rewritten and its rewrite ran to the end
Rewritten == lowered # <<>> /\ lowered[1].status = "ok"

TheVec == lowered[1].vec

\* positions in the block of the instructions emitted in place of the vec
EmittedAt == {k \in DOMAIN block : block[k].from = TheVec.id}

ClonesAt == {k \in EmittedAt : block[k].clone_of # 0}

MovsAt == {k \in EmittedAt : block[k].clone_of = 0}

\* emitted instructions writing channel c of the vec destination register
WritersOf(c) ==
  {k \in EmittedAt : /\ ~block[k].dest.is_ssa
                     /\ block[k].dest.reg = TheVec.dest.reg
                     /\ c \in block[k].dest.write_mask}

\* the operand move emission associates with channel c
OperandOf(vec, c) == Cardinality({d \in vec.dest.write_mask : d < c})

Max(S) == CHOOSE x \in S : \A y \in S : y <= x

\* register state after the original block up to and including the vec
StateOld == Exec(InitialState, block0, 1, IndexOf(block0, TheVec.id, 1))

\* register state after the rewritten block up to the last emitted instruction
StateNew == Exec(InitialState, block, 1, Max(EmittedAt \cup {0}))

DestLoc(vec, c) == <<vec.dest.reg, vec.dest.base_offset, c>>

\* C1: the instructions emitted for a vec leave every enabled destination
\* component holding the value the original vec would have stored there.
C1_ValuesPreserved ==
  Rewritten =>
    \A c \in TheVec.dest.write_mask :
      StateNew[DestLoc(TheVec, c)] = StateOld[DestLoc(TheVec, c)]

\* C2: the emitted instructions write exactly the components of the write
\* mask, each by exactly one emitted instruction.
C2_EachComponentOnce ==
  Rewritten =>
    \A c \in Channels :
      Cardinality(WritersOf(c)) = IF c \in TheVec.dest.write_mask THEN 1 ELSE 0

\* C3: the move for an unfolded component whose source aliases the
\* destination register precedes every other emitted write of that register.
C3_AliasMoveFirst ==
  Rewritten =>
    \A c \in TheVec.dest.write_mask :
      (/\ src_matches_dest_reg(TheVec.dest, TheVec.src[OperandOf(TheVec, c)])
       /\ \A k \in ClonesAt : c \notin block[k].dest.write_mask)
      => \E m \in MovsAt :
           /\ c \in block[m].dest.write_mask
           /\ \A k \in EmittedAt \ {m} :
                (~block[k].dest.is_ssa /\ block[k].dest.reg = TheVec.dest.reg)
                  => m < k

\* the non-move ALU instructions defining register reg before the pass
FoldableDefs(reg) ==
  {k \in DOMAIN block0 : /\ block0[k].type = "alu"
                         /\ block0[k].op # "imov"
                         /\ ~block0[k].dest.is_ssa
                         /\ block0[k].dest.reg = reg
                         /\ block0[k].id # TheVec.id}

\* C4: a single-use source register defined by a non-move ALU instruction is
\* folded: the definition is gone, a clone writes the component, no move does.
C4_ProducerFolded ==
  Rewritten =>
    \A c \in TheVec.dest.write_mask :
      LET src == TheVec.src[OperandOf(TheVec, c)]
      IN (~src.is_ssa /\ UsesCount(block0, src.reg, 1) = 1)
         => \A d \in FoldableDefs(src.reg) :
              /\ ~Present(block, block0[d].id)
              /\ \E k \in ClonesAt : /\ block[k].clone_of = block0[d].id
                                     /\ block[k].dest.reg = TheVec.dest.reg
                                     /\ block[k].dest.write_mask = {c}
              /\ \A m \in MovsAt : c \notin block[m].dest.write_mask

\* C5: a defining imov is never folded: it stays unchanged, its register is
\* kept, and the component reading that register gets a move, not a clone.
C5_MoveNeverFolded ==
  Rewritten =>
    \A d \in DOMAIN block0 :
      (block0[d].type = "alu" /\ block0[d].op = "imov")
      => /\ Present(block, block0[d].id)
         /\ InstrById(block, block0[d].id) = block0[d]
         /\ block0[d].dest.reg \in registers
         /\ \A c \in TheVec.dest.write_mask :
              LET src == TheVec.src[OperandOf(TheVec, c)]
              IN (~src.is_ssa /\ src.reg = block0[d].dest.reg)
                 => /\ \E m \in MovsAt : c \in block[m].dest.write_mask
                    /\ \A k \in ClonesAt : c \notin block[k].dest.write_mask

(***************************************************************************)
(* Claims about nir_lower_doubles                                          *)
(***************************************************************************)
Unlowered(instr) ==
  instr.type = "alu" /\ instr.bit_size = 64 /\ instr.op \in HandledOps

\* C6: after one run with all eight flags set no 64-bit ALU instruction with
\* one of the eight lowered opcodes remains in the function.
C6_OnlyPrimitivesRemain ==
  (dpc = "done" /\ options = AllOptions) =>
    \A k \in DOMAIN impl : ~Unlowered(impl[k])

\* the step of the walk changes the function
Lowers == dpc = "walk" /\ impl' # impl

\* the claim's three cases in which an instruction is not lowered
NotToLower(instr) ==
  \/ instr.bit_size # 64
  \/ instr.op \notin HandledOps
  \/ FlagOf(instr.op) \notin options

\* C7: an ALU instruction whose destination is not 64-bit, whose opcode is
\* not handled or whose flag is unset is left in place unchanged, and no
\* instruction or control-flow node is inserted for it.
C7_UnselectedUntouched ==
  [][(/\ dpc = "walk"
      /\ InstrById(impl, dcur).type = "alu"
      /\ NotToLower(InstrById(impl, dcur)))
     => (impl' = impl /\ ifs' = ifs)]_vars

\* the walk ended with a 64-bit handled instruction passed over, its flag unset
C7_Witness ==
  /\ dpc = "done"
  /\ impl = impl0
  /\ \E k \in DOMAIN impl :
       Unlowered(impl[k]) /\ impl[k].is_ssa /\ FlagOf(impl[k].op) \notin options

\* C8: when an instruction has been lowered it is gone, no operand refers to
\* its destination, and every operand that did refers to the replacement.
C8_UsesRewritten ==
  [][Lowers =>
       /\ ~Present(impl', dcur)
       /\ \A k \in DOMAIN impl' :
            \A j \in DOMAIN impl'[k].src : impl'[k].src[j] # dcur
       /\ \A k \in DOMAIN impl :
            \A j \in DOMAIN impl[k].src :
              (impl[k].src[j] = dcur /\ impl[k].id # dcur)
                => InstrById(impl', impl[k].id).src[j] = dnext_id' - 1]_vars

\* an instruction of the original function reads a replacement value
C8_Witness ==
  \E u \in DOMAIN impl, k \in DOMAIN impl :
    /\ impl[u].from = 0
    /\ impl[k].from # 0
    /\ ~Present(impl, impl[k].from)
    /\ \E j \in DOMAIN impl[u].src : impl[u].src[j] = impl[k].id

(***************************************************************************)
(* Claims about the decomposition functions                                *)
(***************************************************************************)
Evaluated == ret # <<>>

\* all 64 bits of a double, as positions 0..63
Bits64(d) == d.lo \cup {b + 32 : b \in d.hi}

SignedInfinity(sign) ==
  pack_double_2x32_split({}, ExponentBits \cup (IF sign THEN {SignBit} ELSE {}))

Rounded(fn) == ret # <<>> /\ "fn" \in DOMAIN arg[1] /\ arg[1].fn = fn

\* the greatest multiple of Unit that is <= n
MathFloor(n) == (n \div Unit) * Unit

\* the least multiple of Unit that is >= n
MathCeil(n) == 0 - MathFloor(0 - n)

Integral(v) == v.q % Unit = 0

\* C11: with trunc as the reference, floor(x) is trunc(x) for x >= 0, x for
\* a negative integral x and trunc(x) - 1 otherwise; ceil(x) is trunc(x)
\* for x < 0 and -floor(-x) otherwise; fract(x) is x - floor(x); and they
\* are the mathematical floor, ceiling and fractional part.
C11_FloorCeilFract ==
  LET x == arg[1].x
      n == Num(x)
      tr == Num(ftrunc_q(x))
  IN /\ Rounded("floor") =>
          /\ Num(ret[1]) = IF n >= 0 THEN tr
                           ELSE IF Integral(x) THEN n ELSE tr - Unit
          /\ Num(ret[1]) = MathFloor(n)
     /\ Rounded("ceil") =>
          /\ Num(ret[1]) = IF n < 0 THEN tr
                           ELSE 0 - Num(lower_floor_val(fneg_q(x)))
          /\ Num(ret[1]) = MathCeil(n)
     /\ Rounded("fract") =>
          /\ Num(ret[1]) = n - Num(lower_floor_val(x))
          /\ Num(ret[1]) = n - MathFloor(n)
          /\ Num(ret[1]) >= 0 /\ Num(ret[1]) < Unit

\* floor(-1.5) = -2 has been computed
C11_Witness ==
  /\ Rounded("floor")
  /\ arg[1].x = QVal(TRUE, Unit + Unit \div 2)
  /\ ret[1] = QVal(TRUE, 2 * Unit)

\* the integer nearest to n units, the even one of the two on a tie
NearestEven(n) ==
  LET lo == MathFloor(n)
      fr == n - lo
  IN IF 2 * fr < Unit THEN lo
     ELSE IF 2 * fr > Unit THEN lo + Unit
     ELSE IF (lo \div Unit) % 2 = 0 THEN lo ELSE lo + Unit

\* the instructions lower_round_even emits for an instruction numbered 1
RoundEvenCode ==
  Replacement(DInstr(1, "alu", "fround_even", 64, TRUE, <<0>>, MainList, 0,
                     <<>>), 2, 0).instrs

\* the instructions code hold one phi, the last one, with one entry per arm
\* of the only if node, each defined in its arm
OnePhi(code) ==
  /\ Cardinality({k \in DOMAIN code : code[k].type = "phi"}) = 1
  /\ code[Len(code)].type = "phi"
  /\ Len(code[Len(code)].src) = 2
  /\ code[Len(code)].preds = <<Arm(1, "then"), Arm(1, "else")>>
  /\ \A j \in 1..2 :
       InstrById(code, code[Len(code)].src[j]).cf = code[Len(code)].preds[j]

VecViolation ==
  /\ pc = "walk"
  /\ IsVec(InstrById(block, cur))
  /\ InstrById(block, cur).dest.is_ssa

DblViolation ==
  /\ dpc = "walk"
  /\ InstrById(impl, dcur).type = "alu"
  /\ ~InstrById(impl, dcur).is_ssa

C13_AbortBeforeMutation ==
  [][/\ pc # "aborted"
     /\ dpc # "aborted"
     /\ VecViolation =>
          /\ pc' = "aborted"
          /\ block' = block
          /\ registers' = registers
          /\ next_id' = next_id
          /\ lowered' = lowered
     /\ DblViolation =>
          /\ dpc' = "aborted"
          /\ impl' = impl
          /\ dnext_id' = dnext_id
          /\ ifs' = ifs]_vars

\* one of the passes stopped at a violation behind an instruction it had
\* already visited
C13_Witness ==
  \/ /\ pc = "aborted"
     /\ Len(visited) > 1
     /\ block = block0
     /\ lowered = <<>>
  \/ /\ dpc = "aborted"
     /\ dcur > 1
     /\ \E k \in DOMAIN impl : impl[k].id > Len(impl0)

\* C14: the instructions emitted in place of one vec, folded clones and
\* moves together, are at least one and at most as many as the vec has
\* operands.
C14_EmittedCount ==
  Rewritten =>
    /\ Cardinality(EmittedAt) >= 1
    /\ Cardinality(EmittedAt) <= NumInputs(TheVec.op)

(***************************************************************************)
(* C15: each of the two refinement steps of lower_rcp computes             *)
(* x + x * (1 - x * src) from the estimate x it starts from, so that the   *)
(* residual 1 - x * src of its result is the square of the residual it     *)
(* started from.                                                           *)
(***************************************************************************)
SameValue(a, b) == a.n * b.d = b.n * a.d

\* 1 - x * src
Residual(x, src) == ffma_r(Rat(0 - x.n, x.d), src, Rat(1, 1))

\* the estimate the k-th step starts from
EstimateBefore(k) == IF k = 1 THEN arg[1].ra ELSE ret[k - 1]

C15_RcpStep ==
  (arg # <<>> /\ "ra" \in DOMAIN arg[1]) =>
    \A k \in DOMAIN ret :
      /\ SameValue(ret[k],
                   ffma_r(EstimateBefore(k),
                          Residual(EstimateBefore(k), arg[1].src),
                          EstimateBefore(k)))
      /\ SameValue(Residual(ret[k], arg[1].src),
                   ffma_r(Residual(EstimateBefore(k), arg[1].src),
                          Residual(EstimateBefore(k), arg[1].src),
                          Rat(0, 1)))

(***************************************************************************)
(* C16: in lower_sqrt_rsq, with u the exponent field of the source less    *)
(* 1023, the parity p = u AND 1 and the half h = u >> 1 satisfy            *)
(* u = 2 * h + p with h the floor of u / 2, for negative u too; the        *)
(* range-reduced source has exponent field 1023 + p, which is 1023 or      *)
(* 1024; the exponent written into the seed, seed_exp - h, lies in         *)
(* 1..2046.                                                                *)
(***************************************************************************)
SqrtDone == ret # <<>> /\ "seed_exp" \in DOMAIN arg[1]

C16_SqrtExponents ==
  SqrtDone =>
    LET u == arg[1].src.e - 1023
        p == SInt(ret[1].even)
        h == SInt(ret[1].half)
    IN /\ SInt(ret[1].unbiased_exp) = u
       /\ p \in {0, 1}
       /\ h = (u - p) \div 2
       /\ u = 2 * h + p
       /\ 2 * h <= u /\ u < 2 * (h + 1)
       /\ get_exponent_val(ret[1].src_norm) = 1023 + p
       /\ SInt(ret[1].new_exp) = arg[1].seed_exp - h
       /\ SInt(ret[1].new_exp) \in 1..2046

\* an odd negative unbiased exponent: u = -3 gives p = 1 and h = -2
C16_Witness ==
  /\ SqrtDone
  /\ arg[1].src.e = 1020
  /\ SInt(ret[1].even) = 1
  /\ SInt(ret[1].half) = 0 - 2
  /\ get_exponent_val(ret[1].src_norm) = 1024

(***************************************************************************)
(* C17: set_exponent(x, e) has exponent field e, which get_exponent        *)
(* returns as it is, without subtracting 1023, and has the sign bit, the   *)
(* 20 mantissa bits of the high word and the low word of x.                *)
(***************************************************************************)
ExponentSet == arg # <<>> /\ "e" \in DOMAIN arg[1] /\ ret # <<>>

C18_WalkSafe ==
  /\ Rewritten =>
       /\ cur = 0 \/ Present(block, cur)
       /\ pc \in {"walk", "done"}
  /\ (pc = "done" /\ (lowered = <<>> \/ Rewritten)) =>
       visited = [k \in DOMAIN block0 |-> block0[k].id]

(***************************************************************************)
(* C19: once a vec has been rewritten and deleted, every register operand  *)
(* of every remaining instruction names a register of the function; a      *)
(* source register of the vec left without a defining instruction by       *)
(* folding has been removed, and a register that still has a defining      *)
(* instruction has not.                                                    *)
(***************************************************************************)
\* registers named by the operands, sources and destination, of an instruction
RegOperands(ins) ==
  {ins.src[k].reg : k \in {j \in DOMAIN ins.src : ~ins.src[j].is_ssa}}
    \cup (IF ins.dest.is_ssa THEN {} ELSE {ins.dest.reg})

C19_RegistersConsistent ==
  Rewritten =>
    /\ \A k \in DOMAIN block : RegOperands(block[k]) \subseteq registers
    /\ \A r \in Regs :
         /\ (/\ r \in RegOperands(TheVec) \ {TheVec.dest.reg}
             /\ DefsOf(block0, r, 1) # <<>>
             /\ DefsOf(block, r, 1) = <<>>) => r \notin registers
         /\ DefsOf(block, r, 1) # <<>> => r \in registers

(***************************************************************************)
(* C20: for every write mask, gaps included, the operand the folding step  *)
(* examines for an enabled component is an operand of the vec, and it is   *)
(* the operand move emission takes for that component: a producer is       *)
(* cloned onto component c only if it defines the register of operand      *)
(* number (enabled components below c).                                    *)
(***************************************************************************)
C20_FoldExaminesOperand ==
  lowered # <<>> =>
    /\ OobChannels(TheVec) = {}
    /\ Rewritten =>
         \A k \in ClonesAt :
           \A c \in block[k].dest.write_mask :
             /\ ~TheVec.src[OperandOf(TheVec, c)].is_ssa
             /\ TheVec.src[OperandOf(TheVec, c)].reg
                  = InstrById(block0, block[k].clone_of).dest.reg

(***************************************************************************)
(* C21: a clone folded into a destination component writes that component *)
(* only.  For a producer that is not a dot product each source of the      *)
(* clone reads, at that component, what the producer read to compute the   *)
(* register component the vec operand selects with swizzle[0], whichever   *)
(* components the producer writes; for a dot product the source swizzles   *)
(* of the clone are those of the producer.                                 *)
(***************************************************************************)
\* the operands of the vec that read the register the producer defines
OperandsReading(parent) ==
  {o \in DOMAIN TheVec.src :
     ~TheVec.src[o].is_ssa /\ TheVec.src[o].reg = parent.dest.reg}

CloneSwizzlesOf(clone, parent) ==
  /\ Cardinality(clone.dest.write_mask) = 1
  /\ DOMAIN clone.src = DOMAIN parent.src
  /\ IF IsDot(parent.op)
     THEN \A s \in DOMAIN clone.src : clone.src[s].swizzle = parent.src[s].swizzle
     ELSE \A c \in clone.dest.write_mask, s \in DOMAIN clone.src,
             o \in OperandsReading(parent) :
            clone.src[s].swizzle[c]
              = parent.src[s].swizzle[TheVec.src[o].swizzle[0]]

C21_CloneSwizzles ==
  Rewritten =>
    \A k \in ClonesAt :
      CloneSwizzlesOf(block[k], InstrById(block0, block[k].clone_of))
====
